---- MODULE Spec2Model ----
(***************************************************************************)
(* Vote counting of the Commons photo challenge:                           *)
(*   parse_voting_page -> validate_voters -> validate_votes -> count_votes *)
(* as driven by process_challenge (src/photo_challenge_library.py).        *)
(*                                                                         *)
(* A data frame is a sequence of records (rows in index order).  A cell    *)
(* that pandas holds as NaN is the empty tuple NaN, a cell with the number *)
(* n is the one-element tuple <<n>>.  A wiki line is represented by the    *)
(* outcome of the lexical tests and regular expressions the parser applies *)
(* to it.                                                                  *)
(***************************************************************************)
EXTENDS Integers, Sequences, FiniteSets, TLC

VARIABLES pc, num, fname, title, creator, files, votes, lookups, voter_df, vote_df, file_df,
          notices, voting

vars == <<pc, num, fname, title, creator, files, votes, lookups, voter_df, vote_df, file_df,
          notices, voting>>

(***************************************************************************)
(* Bounds of the model.                                                    *)
(***************************************************************************)
MaxFiles == 2

MaxVotes == 2

MaxScoreFiles == 3

MaxScoreVotes == 3

MaxVoterFiles == 1

MaxVoterVotes == 2

MaxParseFiles == 1

MaxParseVotes == 2

MaxLineFiles == 2

MaxLineVotes == 1

MaxGenFiles == 4

MaxOrderFiles == 2

MaxOrderVotes == 3

(***************************************************************************)
(* Generic helpers.                                                        *)
(***************************************************************************)
NaN == <<>>

Val(n) == <<n>>

IsNaN(c) == c = NaN

Num(c) == c[1]

Range(s) == {s[i] : i \in 1..Len(s)}

RECURSIVE SumSeq(_)
SumSeq(s) == IF s = <<>> THEN 0 ELSE Head(s) + SumSeq(Tail(s))

SetMin(S) == CHOOSE x \in S : \A y \in S : x <= y

SetMax(S) == CHOOSE x \in S : \A y \in S : y <= x

(***************************************************************************)
(* Python local variables of parse_voting_page are unbound until the first *)
(* section header assigns them.                                            *)
(***************************************************************************)
Unbound == "<unbound>"

(***************************************************************************)
(* Wiki lines, by what the parser's tests see in them.                     *)
(*   hdr     line.startswith("===")                                        *)
(*   anchor  substr(r'<span[^>]*>(\d+)</span>', line)                      *)
(*   file    "[[File:" in line; part0, part4: fields of the split, part4   *)
(*           is NaN when the split has fewer than 5 parts                  *)
(*   cre     line starts with "<!-- '''C" or "'''C"; user: the [[User:..]] *)
(*   mark    "*}}" in line; voter: the name the voter patterns capture;    *)
(*           award: the digit of {{d/3*}} as a one-element tuple, or NaN   *)
(***************************************************************************)
OtherLine ==
  [hdr |-> FALSE, anchor |-> "", file |-> FALSE, part0 |-> "", part4 |-> NaN,
   cre |-> FALSE, user |-> "", mark |-> FALSE, voter |-> "", award |-> NaN]

HeaderLine(n) == [OtherLine EXCEPT !.hdr = TRUE, !.anchor = n]

FileLine(f, t) == [OtherLine EXCEPT !.file = TRUE, !.part0 = f, !.part4 = t]

CreatorLine(u) == [OtherLine EXCEPT !.cre = TRUE, !.user = u]

VoteLine(v, a) == [OtherLine EXCEPT !.mark = TRUE, !.voter = v, !.award = a]

(***************************************************************************)
(* parse_voting_page: the body of the loop over the lines, on the state    *)
(* st = [num, fname, title, creator, files, votes, raised].  Reading an    *)
(* unbound local raises NameError, which ends the scan.                    *)
(***************************************************************************)
ParseHeader(st, l) ==
  IF l.hdr
  THEN [st EXCEPT !.num = l.anchor, !.fname = "", !.title = "", !.creator = ""]
  ELSE st

ParseFile(st, l) ==
  [st EXCEPT !.fname = l.part0,
             !.title = IF IsNaN(l.part4) THEN st.title ELSE Num(l.part4)]

ParseCreator(st, l) ==
  IF Unbound \in {st.num, st.fname, st.title}
  THEN [st EXCEPT !.creator = l.user, !.raised = "NameError"]
  ELSE [st EXCEPT !.creator = l.user,
                  !.files = Append(st.files,
                              [num |-> st.num, file_name |-> st.fname,
                               title |-> st.title, creator |-> l.user])]

ParseVote(st, l) ==
  IF st.fname = Unbound
  THEN [st EXCEPT !.raised = "NameError"]
  ELSE IF st.fname = "Sample-image.svg" \/ IsNaN(l.award)
  THEN st
  ELSE IF Unbound \in {st.num, st.creator}
  THEN [st EXCEPT !.raised = "NameError"]
  ELSE [st EXCEPT !.votes = Append(st.votes,
                              [num |-> st.num, award |-> Num(l.award),
                               voter |-> l.voter, creator |-> st.creator])]

parse_line(st, l) ==
  LET s1 == ParseHeader(st, l)
  IN  IF l.file THEN ParseFile(s1, l)
      ELSE IF l.cre THEN ParseCreator(s1, l)
      ELSE IF l.mark THEN ParseVote(s1, l)
      ELSE s1

(***************************************************************************)
(* validate_voters.  The identity service (pywikibot.User) answers with    *)
(*   [registered, days, edits, blocked, entered]                           *)
(* where days is (start_date - registration()).days and entered says that  *)
(* contributions() holds a page 'Commons:Photo challenge/...' with exactly *)
(* one '/'.                                                                *)
(***************************************************************************)
IPLiterals == {"10.0.0.1"}

\* re.fullmatch(r"[0-9.]+", name), over the names of the model
IsIP(name) == name \in IPLiterals

MinDays == 10

MinEdits == 50

Months == {"January", "February", "March", "April", "May", "June", "July",
           "August", "September", "October", "November", "December"}

\* strptime("30 <month> <year>", "%d %B %Y") raises ValueError for a day that
\* the month does not have
StartDateOk(month) == month # "February"

RECURSIVE Unique(_)
Unique(s) ==
  IF s = <<>> THEN <<>>
  ELSE LET r == Unique(SubSeq(s, 1, Len(s) - 1))
           x == s[Len(s)]
       IN  IF x \in Range(r) THEN r ELSE Append(r, x)

VoterList(vt) ==
  SelectSeq(Unique([i \in 1..Len(vt) |-> vt[i].voter]), LAMBDA v : v # "")

NewVoterRow(v) ==
  [voter |-> v, error |-> 0, note |-> 0, edit_count |-> NaN, reg_date |-> NaN]

\* mutant: the exemption of new contributors who entered the challenge is lost
ExemptColumnNever(r) == "error"

ExemptColumn(r) ==
  IF (r.days < MinDays \/ r.edits < MinEdits) /\ r.entered THEN "note" ELSE "error"

MarkNewAccount(row, r, col) ==
  IF r.days < MinDays THEN [row EXCEPT ![col] = 3] ELSE row

\* mutant: 'elif', the low edit count no longer overwrites the new account
MarkLowEditsElif(row, r, col) ==
  IF r.edits < MinEdits /\ ~(r.days < MinDays) THEN [row EXCEPT ![col] = 4] ELSE row

MarkLowEdits(row, r, col) ==
  IF r.edits < MinEdits THEN [row EXCEPT ![col] = 4] ELSE row

\* the rows of a registered user, after the lookup
ValidateRegistered(v, r) ==
  LET row == [NewVoterRow(v) EXCEPT !.edit_count = Val(r.edits),
                                    !.reg_date = Val(r.days),
                                    !.note = IF r.blocked THEN 1 ELSE 0]
      col == ExemptColumn(r)
  IN  MarkLowEdits(MarkNewAccount(row, r, col), r, col)

\* mutant: no 'continue' for a user who is not registered
ValidateVoterFallThrough(v, ident) ==
  IF IsIP(v) THEN [NewVoterRow(v) EXCEPT !.error = 1]
  ELSE LET row == [NewVoterRow(v) EXCEPT !.error = IF ident[v].registered THEN 0 ELSE 2,
                                         !.edit_count = Val(ident[v].edits)]
       IN  IF ident[v].registered THEN ValidateRegistered(v, ident[v])
           ELSE MarkLowEdits(MarkNewAccount(row, ident[v], "error"), ident[v], "error")

\* one iteration of the loop over voter_df; ident is the identity service
ValidateVoter(v, ident) ==
  IF IsIP(v) THEN [NewVoterRow(v) EXCEPT !.error = 1]
  ELSE IF ~ident[v].registered
  THEN [NewVoterRow(v) EXCEPT !.error = 2, !.edit_count = Val(ident[v].edits)]
  ELSE ValidateRegistered(v, ident[v])

FillEditCount(row) ==
  [row EXCEPT !.edit_count = IF IsNaN(row.edit_count) THEN Val(-1) ELSE row.edit_count]

\* the column 'edit_count' exists only once a row has been looked up
HasEditCount(names) == \E i \in 1..Len(names) : ~IsIP(names[i])

\* the users the loop constructs pywikibot.User for, with the answers they got
LookedUp(vt, ident) ==
  [v \in {w \in Range(VoterList(vt)) : ~IsIP(w)} |-> ident[v]]

validate_voters(vt, ident) ==
  LET names == VoterList(vt)
  IN  [i \in 1..Len(names) |-> FillEditCount(ValidateVoter(names[i], ident))]

\* what a query of pywikibot.User answers when it raises: nothing in
\* validate_voters catches an exception
Failure == [raises |-> "Exception"]

\* the iterations of the loop over voter_df whose lookup raises
Failing(vt, ident) ==
  {i \in 1..Len(VoterList(vt)) :
     ~IsIP(VoterList(vt)[i]) /\ ident[VoterList(vt)[i]] = Failure}

\* the lookups of the iterations 1..k
LookedUpUntil(vt, ident, k) ==
  [v \in {VoterList(vt)[i] : i \in {j \in 1..k : ~IsIP(VoterList(vt)[j])}} |-> ident[v]]

(***************************************************************************)
(* validate_votes: the passes, each overwriting the column 'error'.        *)
(***************************************************************************)
VoterError(v, vdf) ==
  IF \E i \in 1..Len(vdf) : vdf[i].voter = v
  THEN Val(vdf[CHOOSE i \in 1..Len(vdf) : vdf[i].voter = v].error)
  ELSE NaN

\* vote_df.merge(voter_df[["voter", "error"]], on="voter", how="left")
MergeErrors(vt, vdf) ==
  [i \in 1..Len(vt) |->
     [num |-> vt[i].num, award |-> vt[i].award, voter |-> vt[i].voter,
      creator |-> vt[i].creator, error |-> VoterError(vt[i].voter, vdf)]]

Positive(c) == ~IsNaN(c) /\ Num(c) > 0

\* mutant: no amnesty for the praises of disqualified voters
AmnestyOff(df) == df

Amnesty(df) ==
  [i \in 1..Len(df) |->
     IF df[i].award = 0 /\ Positive(df[i].error)
     THEN [df[i] EXCEPT !.error = Val(0)] ELSE df[i]]

\* mutant: duplicated(keep="last")
IsDuplicateKeepLast(df, i) ==
  \E j \in (i + 1)..Len(df) : df[j].num = df[i].num /\ df[j].voter = df[i].voter

\* DataFrame.duplicated(subset=["num", "voter"]): all but the first occurrence
IsDuplicate(df, i) ==
  \E j \in 1..(i - 1) : df[j].num = df[i].num /\ df[j].voter = df[i].voter

\* mutant: the duplicate pass also clears the award of the vote
MarkDuplicatesClearAward(df) ==
  [i \in 1..Len(df) |->
     IF IsDuplicate(df, i) THEN [df[i] EXCEPT !.error = Val(5), !.award = 0] ELSE df[i]]

MarkDuplicates(df) ==
  [i \in 1..Len(df) |->
     IF IsDuplicate(df, i) THEN [df[i] EXCEPT !.error = Val(5)] ELSE df[i]]

\* mutant: the unsigned pass leaves a vote that an earlier pass rejected
MarkUnsignedIfClean(df) ==
  [i \in 1..Len(df) |->
     IF df[i].voter = "" /\ ~Positive(df[i].error)
     THEN [df[i] EXCEPT !.error = Val(6)] ELSE df[i]]

MarkUnsigned(df) ==
  [i \in 1..Len(df) |->
     IF df[i].voter = "" THEN [df[i] EXCEPT !.error = Val(6)] ELSE df[i]]

MarkSelfVotes(df) ==
  [i \in 1..Len(df) |->
     IF df[i].voter = df[i].creator THEN [df[i] EXCEPT !.error = Val(7)] ELSE df[i]]

\* mask1 = (award > 0) & (error == 0)
Mask1(df, i) == df[i].award > 0 /\ df[i].error = Val(0)

\* mutant: duplicated(keep="first"), the first vote of a group stays unmarked
Mask2KeepFirst(df, i) ==
  \E j \in 1..(i - 1) :
     Mask1(df, j) /\ df[j].award = df[i].award /\ df[j].voter = df[i].voter

\* vote_df[mask1].duplicated(subset=["award", "voter"], keep=False)
Mask2(df, i) ==
  \E j \in 1..Len(df) :
     j # i /\ Mask1(df, j) /\ df[j].award = df[i].award /\ df[j].voter = df[i].voter

MarkMultiple(df) ==
  [i \in 1..Len(df) |->
     IF Mask1(df, i) /\ Mask2(df, i) THEN [df[i] EXCEPT !.error = Val(8)] ELSE df[i]]

\* mutant: the self-vote pass runs before the duplicate and unsigned passes
SelfVotesFirst(vt, vdf) ==
  MarkUnsigned(MarkDuplicates(MarkSelfVotes(Amnesty(MergeErrors(vt, vdf)))))

BeforeMultiple(vt, vdf) ==
  MarkSelfVotes(MarkUnsigned(MarkDuplicates(Amnesty(MergeErrors(vt, vdf)))))

validate_votes(vt, vdf) == MarkMultiple(BeforeMultiple(vt, vdf))

(***************************************************************************)
(* count_votes.  score2 = score + support/max_support is kept as the       *)
(* numerator score*max_support + support over the common denominator       *)
(* max_support, which orders and equates the rows as the quotient does.    *)
(***************************************************************************)
\* vote_df[vote_df["error"] >= 0]
Counted(df) == SelectSeq(df, LAMBDA v : ~IsNaN(v.error) /\ Num(v.error) >= 0)

VotesOf(cv, n) == SelectSeq(cv, LAMBDA v : v.num = n)

\* groupby("num")["award"].sum(), left-merged on "num"
Score(cv, n) ==
  IF VotesOf(cv, n) = <<>> THEN NaN
  ELSE Val(SumSeq([i \in 1..Len(VotesOf(cv, n)) |-> VotesOf(cv, n)[i].award]))

\* groupby("num")["award"].count(), left-merged on "num"
Support(cv, n) ==
  IF VotesOf(cv, n) = <<>> THEN NaN ELSE Val(Len(VotesOf(cv, n)))

\* file_df['support'].max() + 1
MaxSupport(cv, fl) ==
  LET S == {Num(Support(cv, fl[i].num)) : i \in {j \in 1..Len(fl) : ~IsNaN(Support(cv, fl[j].num))}}
  IN  IF S = {} THEN NaN ELSE Val(SetMax(S) + 1)

\* mutant: the support is added without the division by max_support
Score2Unscaled(cv, fl, n) ==
  IF IsNaN(Score(cv, n)) THEN NaN
  ELSE Val(Num(Score(cv, n)) + Num(Support(cv, n)))

Score2(cv, fl, n) ==
  IF IsNaN(Score(cv, n)) THEN NaN
  ELSE Val(Num(Score(cv, n)) * Num(MaxSupport(cv, fl)) + Num(Support(cv, n)))

Merged(cv, fl) ==
  [i \in 1..Len(fl) |->
     [num |-> fl[i].num, file_name |-> fl[i].file_name, title |-> fl[i].title,
      creator |-> fl[i].creator, score |-> Score(cv, fl[i].num),
      support |-> Support(cv, fl[i].num), score2 |-> Score2(cv, fl, fl[i].num)]]

\* a sorts before b in sort_values(by="score2", ascending=False): NaN comes last
Before(a, b) == ~IsNaN(a.score2) /\ (IsNaN(b.score2) \/ Num(a.score2) > Num(b.score2))

\* rows with equal score2 are kept in the order of file_df
RECURSIVE SortDesc(_)
SortDesc(df) ==
  IF df = <<>> THEN <<>>
  ELSE LET k == CHOOSE i \in 1..Len(df) :
                  /\ \A j \in 1..Len(df) : ~Before(df[j], df[i])
                  /\ \A j \in 1..(i - 1) : Before(df[i], df[j])
       IN  <<df[k]>> \o SortDesc(SubSeq(df, 1, k - 1) \o SubSeq(df, k + 1, Len(df)))

\* mutant: rank(method="dense")
RankDense(df, i) ==
  IF IsNaN(df[i].score2) THEN NaN
  ELSE Val(1 + Cardinality({Num(df[j].score2) : j \in {q \in 1..Len(df) :
                              ~IsNaN(df[q].score2) /\ Num(df[q].score2) > Num(df[i].score2)}}))

\* Series.rank(method="min", ascending=False): NaN stays NaN
Rank(df, i) ==
  IF IsNaN(df[i].score2) THEN NaN
  ELSE Val(1 + Cardinality({j \in 1..Len(df) :
                              ~IsNaN(df[j].score2) /\ Num(df[j].score2) > Num(df[i].score2)}))

FillNa0(c) == IF IsNaN(c) THEN 0 ELSE Num(c)

count_votes(df, fl) ==
  LET sorted == SortDesc(Merged(Counted(df), fl))
  IN  [i \in 1..Len(sorted) |->
         [num |-> sorted[i].num, file_name |-> sorted[i].file_name,
          title |-> sorted[i].title, creator |-> sorted[i].creator,
          score |-> FillNa0(sorted[i].score), support |-> FillNa0(sorted[i].support),
          score2 |-> sorted[i].score2, rank |-> FillNa0(Rank(sorted, i))]]

(***************************************************************************)
(* talk_to_winners: the loop over the first rows of the scored table.      *)
(* pages is the set of users whose talk page exists; a notice is the       *)
(* template saved on the talk page of a creator.                           *)
(***************************************************************************)
TopRows == 10

Colors == <<"Gold", "Silver", "Bronze">>

\* color[rank] of the list ['', 'Gold', 'Silver', 'Bronze']
Color(rank) == IF rank = 0 THEN "" ELSE Colors[rank]

\* the iterations i, i + 1, ... of 'for i in range(10)', after the notices acc;
\* file_df.iloc[i] raises IndexError past the last row
RECURSIVE Notify(_, _, _, _)
Notify(df, i, pages, acc) ==
  IF i > TopRows THEN [notices |-> acc, raised |-> ""]
  ELSE IF i > Len(df) THEN [notices |-> acc, raised |-> "IndexError"]
  ELSE IF df[i].rank > Len(Colors) THEN Notify(df, i + 1, pages, acc)
  ELSE IF df[i].creator \notin pages THEN [notices |-> acc, raised |-> ""]
  ELSE Notify(df, i + 1, pages,
              Append(acc, [user |-> df[i].creator, file_name |-> df[i].file_name,
                           num |-> df[i].num, rank |-> df[i].rank,
                           color |-> Color(df[i].rank)]))

talk_to_winners(df, pages) == Notify(df, 1, pages, <<>>)

(***************************************************************************)
(* create_voting_page: the loop over the submitted files.  A row of        *)
(* file_df says when the file was uploaded (None when the file does not    *)
(* exist, else before, within or after the month of the challenge) and     *)
(* whether it is among the first four files of its user.  The page under   *)
(* construction is [row, ifile, anchors, errors]: rows read, last number   *)
(* given, the anchors written and the issues to list.                      *)
(***************************************************************************)
\* the numbers of the entries as the page writes them
Digits == <<"1", "2", "3", "4", "5", "6", "7", "8", "9">>

None == "None"

Submissions == [uploaded : {None, "before", "within", "after"}, active : BOOLEAN]

NewPage == [row |-> 0, ifile |-> 0, anchors |-> <<>>, errors |-> <<>>]

\* the error of the row, '' when the file is accepted
Issue(file) ==
  IF file.uploaded = None THEN "does not exist"
  ELSE IF ~file.active THEN "more than 4 entries"
  ELSE IF file.uploaded = "after" THEN "after the challenge closed"
  ELSE IF file.uploaded = "before" THEN "before the challenge opened"
  ELSE ""

\* mutant: every row of file_df takes a number
NextNumberEveryRow(ifile, file) == ifile + 1

\* ifile += 1, which the 'continue' of a removed file skips
NextNumber(ifile, file) == IF Issue(file) # "" THEN ifile ELSE ifile + 1

\* one iteration of the loop over file_df.iterrows()
WriteEntry(page, file) ==
  LET n == NextNumber(page.ifile, file)
  IN  IF Issue(file) # ""
      THEN [page EXCEPT !.row = @ + 1, !.ifile = n, !.errors = Append(@, Issue(file))]
      ELSE [page EXCEPT !.row = @ + 1, !.ifile = n, !.anchors = Append(@, Digits[n])]

(***************************************************************************)
(* The voting page read by the model is the page written by                *)
(* create_voting_page (header, file and creator line of every entry,       *)
(* numbered 1, 2, ...) with the vote lines the voters added below each     *)
(* entry.  A round fixes who submitted the entries, who signs votes, what  *)
(* the identity service may answer, and the size of the page.              *)
(***************************************************************************)
Awards == 0..3

Established == [registered |-> TRUE, days |-> 20, edits |-> 100, blocked |-> FALSE, entered |-> FALSE]

Unregistered == [registered |-> FALSE, days |-> 0, edits |-> 0, blocked |-> FALSE, entered |-> FALSE]

Registered ==
  [registered : {TRUE}, days : {5, 20}, edits : {10, 100}, blocked : {FALSE}, entered : BOOLEAN]

Responses == Registered \cup {Unregistered}

\* any account, blocked or not
Accounts ==
  [registered : {TRUE}, days : {5, 20}, edits : {10, 100}, blocked : BOOLEAN, entered : BOOLEAN]

\* entries by Carol and Bob in turn; votes unsigned, signed by Alice or Bob, or
\* cast from an IP address; Alice is an established user, the service may
\* answer anything about Bob
Ballot ==
  [maxFiles |-> MaxFiles, maxVotes |-> MaxVotes,
   submitters |-> [i \in 1..9 |-> IF i % 2 = 1 THEN "Carol" ELSE "Bob"],
   signatures |-> {"", "Alice", "Bob", "10.0.0.1"},
   identities |-> {id \in [{"Alice", "Bob"} -> Responses] : id["Alice"] = Established}]

\* the first entry by Alice, the others by Carol; votes signed by Alice and
\* Bob, both established users
Scoring ==
  [maxFiles |-> MaxScoreFiles, maxVotes |-> MaxScoreVotes,
   submitters |-> [i \in 1..9 |-> IF i = 1 THEN "Alice" ELSE "Carol"],
   signatures |-> {"Alice", "Bob"},
   identities |-> {[n \in {"Alice", "Bob"} |-> Established]}]

\* one entry by Carol; votes signed by Alice and Bob; the service may
\* answer anything about either, or fail
Eligibility ==
  [maxFiles |-> MaxVoterFiles, maxVotes |-> MaxVoterVotes,
   submitters |-> [i \in 1..9 |-> "Carol"],
   signatures |-> {"Alice", "Bob"},
   identities |-> [{"Alice", "Bob"} -> Accounts \cup {Unregistered, Failure}]]

\* entries in turn without a user link in the creator line (creator '') and
\* by Carol; votes unsigned or signed by Bob, who is an established user or
\* is not registered
Unattributed ==
  [maxFiles |-> MaxOrderFiles, maxVotes |-> MaxOrderVotes,
   submitters |-> [i \in 1..9 |-> IF i % 2 = 1 THEN "" ELSE "Carol"],
   signatures |-> {"", "Bob"},
   identities |-> [{"Bob"} -> {Established, Unregistered}]]

\* a page whose lines come in any order: headers with and without a number,
\* a file line, a creator line, unsigned votes and votes signed by Alice
Scrambled ==
  [maxFiles |-> MaxParseFiles, maxVotes |-> MaxParseVotes,
   lines |-> {OtherLine, HeaderLine("1"), HeaderLine(""),
              FileLine("Image.jpg", Val("Title")), CreatorLine("Bob")}
             \cup {VoteLine(v, Val(a)) : v \in {"", "Alice"}, a \in {0, 3}},
   identities |-> {[n \in {"Alice"} |-> Established]}]

\* a line that starts with '===' and also holds a signed award template
HeaderVoteLine(n, v, a) ==
  [HeaderLine(n) EXCEPT !.mark = TRUE, !.voter = v, !.award = a]

\* a page with repeated and overloaded lines, in any order: headers (one of
\* them carrying a vote), a file line with a title and one without, a creator
\* line, votes of Alice with the award digits 3 and 7
Redundant ==
  [maxFiles |-> MaxLineFiles, maxVotes |-> MaxLineVotes,
   lines |-> {HeaderLine("1"), HeaderVoteLine("1", "Alice", Val(3)),
              FileLine("Image.jpg", Val("Title")), FileLine("Other.jpg", NaN),
              CreatorLine("Bob"), VoteLine("Alice", Val(3)), VoteLine("Alice", Val(7))},
   identities |-> {[n \in {"Alice"} |-> Established]}]

(***************************************************************************)
(* State machine: process_challenge.                                       *)
(***************************************************************************)
Init ==
  /\ pc = "parse"
  /\ num = Unbound /\ fname = Unbound /\ title = Unbound /\ creator = Unbound
  /\ files = <<>> /\ votes = <<>>
  /\ lookups = <<>> /\ voter_df = <<>> /\ vote_df = <<>> /\ file_df = <<>>
  /\ notices = <<>> /\ voting = NewPage

Locals ==
  [num |-> num, fname |-> fname, title |-> title, creator |-> creator,
   files |-> files, votes |-> votes, raised |-> ""]

\* one iteration of the loop of parse_voting_page, on line l
ReadLine(l, round) ==
  /\ pc = "parse"
  /\ LET st == parse_line(Locals, l)
     IN  /\ Len(st.files) <= round.maxFiles
         /\ Len(st.votes) <= round.maxVotes
         /\ pc' = IF st.raised = "" THEN "parse" ELSE st.raised
         /\ num' = st.num /\ fname' = st.fname /\ title' = st.title
         /\ creator' = st.creator /\ files' = st.files /\ votes' = st.votes
  /\ UNCHANGED <<lookups, voter_df, vote_df, file_df, notices, voting>>

EntryOpen == num # Unbound /\ \A i \in 1..Len(files) : files[i].num # num

ReadHeader(round) ==
  /\ ~EntryOpen
  /\ Len(files) < round.maxFiles
  /\ ReadLine(HeaderLine(Digits[Len(files) + 1]), round)

ReadFile(round) ==
  /\ EntryOpen /\ fname = ""
  /\ ReadLine(FileLine("Image.jpg", Val("Title")), round)

ReadCreator(round) ==
  /\ EntryOpen /\ fname # ""
  /\ ReadLine(CreatorLine(round.submitters[Len(files) + 1]), round)

ReadVote(round) ==
  /\ num # Unbound /\ ~EntryOpen
  /\ \E v \in round.signatures, a \in Awards : ReadLine(VoteLine(v, Val(a)), round)

ValidateVoters(round) ==
  /\ pc = "parse"
  /\ \E ok \in {StartDateOk(month) : month \in Months}, ident \in round.identities :
       IF ~ok
       THEN pc' = "ValueError" /\ UNCHANGED <<lookups, voter_df>>
       ELSE IF Failing(votes, ident) # {}
       THEN /\ pc' = "Exception"
            /\ lookups' = LookedUpUntil(votes, ident, SetMin(Failing(votes, ident)))
            /\ UNCHANGED voter_df
       ELSE IF ~HasEditCount(VoterList(votes))
       THEN pc' = "KeyError" /\ UNCHANGED <<lookups, voter_df>>
       ELSE /\ pc' = "voters"
            /\ lookups' = LookedUp(votes, ident)
            /\ voter_df' = validate_voters(votes, ident)
  /\ UNCHANGED <<num, fname, title, creator, files, votes, vote_df, file_df, notices, voting>>

ValidateVotes ==
  /\ pc = "voters"
  /\ vote_df' = validate_votes(votes, voter_df)
  /\ pc' = "votes"
  /\ UNCHANGED <<num, fname, title, creator, files, votes, lookups, voter_df, file_df, notices, voting>>

CountVotes ==
  /\ pc = "votes"
  /\ file_df' = count_votes(vote_df, files)
  /\ pc' = "counted"
  /\ UNCHANGED <<num, fname, title, creator, files, votes, lookups, voter_df, vote_df, notices, voting>>

\* int(row['num']) raises ValueError unless the string is a number
IsInt(n) == n \in Range(Digits)

\* list_errors, as far as it can raise: the loop over the rejected votes
ListErrors ==
  /\ pc = "counted"
  /\ pc' = IF \E i \in 1..Len(vote_df) : Positive(vote_df[i].error) /\ ~IsInt(vote_df[i].num)
           THEN "ValueError" ELSE "listed"
  /\ UNCHANGED <<num, fname, title, creator, files, votes, lookups, voter_df, vote_df, file_df,
                 notices, voting>>

\* talk_to_winners on the scored table that process_challenge saved
TalkToWinners ==
  /\ pc = "counted"
  /\ \E pages \in SUBSET {file_df[r].creator : r \in 1..Len(file_df)} :
       LET out == talk_to_winners(file_df, pages)
       IN  /\ notices' = out.notices
           /\ pc' = IF out.raised = "" THEN "talked" ELSE out.raised
  /\ UNCHANGED <<num, fname, title, creator, files, votes, lookups, voter_df, vote_df, file_df,
                 voting>>

\* create_voting_page starts on the files of the submission page
InitVoting ==
  /\ pc = "generate"
  /\ num = Unbound /\ fname = Unbound /\ title = Unbound /\ creator = Unbound
  /\ files = <<>> /\ votes = <<>>
  /\ lookups = <<>> /\ voter_df = <<>> /\ vote_df = <<>> /\ file_df = <<>>
  /\ notices = <<>> /\ voting = NewPage

WriteFile ==
  /\ pc = "generate"
  /\ voting.row < MaxGenFiles
  /\ \E file \in Submissions : voting' = WriteEntry(voting, file)
  /\ UNCHANGED <<pc, num, fname, title, creator, files, votes, lookups, voter_df, vote_df,
                 file_df, notices>>

\* the end of the loop: the issues are listed below the entries
WriteIssues ==
  /\ pc = "generate"
  /\ pc' = "generated"
  /\ UNCHANGED <<num, fname, title, creator, files, votes, lookups, voter_df, vote_df,
                 file_df, notices, voting>>

\* any line of the round may come next
ReadAny(round) == \E l \in round.lines : ReadLine(l, round)

Next ==
  \/ ReadHeader(Ballot)
  \/ ReadFile(Ballot)
  \/ ReadCreator(Ballot)
  \/ ReadVote(Ballot)
  \/ ValidateVoters(Ballot)
  \/ ValidateVotes
  \/ CountVotes

Spec == Init /\ [][Next]_vars

NextScore ==
  \/ ReadHeader(Scoring)
  \/ ReadFile(Scoring)
  \/ ReadCreator(Scoring)
  \/ ReadVote(Scoring)
  \/ ValidateVoters(Scoring)
  \/ ValidateVotes
  \/ CountVotes

SpecScore == Init /\ [][NextScore]_vars

NextVoters ==
  \/ ReadHeader(Eligibility)
  \/ ReadFile(Eligibility)
  \/ ReadCreator(Eligibility)
  \/ ReadVote(Eligibility)
  \/ ValidateVoters(Eligibility)
  \/ ValidateVotes
  \/ CountVotes

SpecVoters == Init /\ [][NextVoters]_vars

NextOrder ==
  \/ ReadHeader(Unattributed)
  \/ ReadFile(Unattributed)
  \/ ReadCreator(Unattributed)
  \/ ReadVote(Unattributed)
  \/ ValidateVoters(Unattributed)
  \/ ValidateVotes
  \/ CountVotes

SpecOrder == Init /\ [][NextOrder]_vars

NextLines ==
  \/ ReadAny(Redundant)
  \/ ValidateVoters(Redundant)
  \/ ValidateVotes
  \/ CountVotes

SpecLines == Init /\ [][NextLines]_vars

NextWinners ==
  \/ ReadHeader(Scoring)
  \/ ReadFile(Scoring)
  \/ ReadCreator(Scoring)
  \/ ReadVote(Scoring)
  \/ ValidateVoters(Scoring)
  \/ ValidateVotes
  \/ CountVotes
  \/ TalkToWinners

SpecWinners == Init /\ [][NextWinners]_vars

NextVoting ==
  \/ WriteFile
  \/ WriteIssues

SpecVoting == InitVoting /\ [][NextVoting]_vars

NextParse ==
  \/ ReadAny(Scrambled)
  \/ ValidateVoters(Scrambled)
  \/ ValidateVotes
  \/ CountVotes
  \/ ListErrors

SpecParse == Init /\ [][NextParse]_vars

(***************************************************************************)
(* Properties of the scoring (count_votes).                                *)
(***************************************************************************)
Rows == 1..Len(file_df)

Ballots == 1..Len(vote_df)

AcceptedFor(n) == SelectSeq(vote_df, LAMBDA v : v.num = n /\ v.error = Val(0))

AcceptedScore(n) == SumSeq([i \in 1..Len(AcceptedFor(n)) |-> AcceptedFor(n)[i].award])

\* C1: score(e) is the sum of the awards of the votes for e whose final error
\* is 0 and support(e) is the number of those votes; votes with a nonzero
\* error count for neither, an entry without accepted votes has score and
\* support 0.
C1_OnlyAcceptedVotesCount ==
  pc = "counted" =>
    \A r \in Rows :
      /\ file_df[r].score = AcceptedScore(file_df[r].num)
      /\ file_df[r].support = Len(AcceptedFor(file_df[r].num))

\* C2: rank monotonicity over all entries, those without votes included: a
\* higher score never has a worse rank, and at equal score a higher support
\* has a strictly better rank.
C2_RankMonotone ==
  pc = "counted" =>
    \A a \in Rows, b \in Rows :
      /\ file_df[a].score > file_df[b].score => file_df[a].rank <= file_df[b].rank
      /\ (file_df[a].score = file_df[b].score /\ file_df[a].support > file_df[b].support)
           => file_df[a].rank < file_df[b].rank

\* key(e) = score(e) + support(e)/(max(support) + 1), times max(support) + 1
ClaimedKey(r) ==
  file_df[r].score * (SetMax({file_df[q].support : q \in Rows}) + 1) + file_df[r].support

\* C3: the rank of every entry, one with score = support = 0 included, is 1
\* plus the number of entries with a strictly greater key, and entries with
\* equal keys have equal ranks.
C3_RankIsOnePlusGreater ==
  pc = "counted" =>
    \A a \in Rows :
      /\ file_df[a].rank = 1 + Cardinality({b \in Rows : ClaimedKey(b) > ClaimedKey(a)})
      /\ \A b \in Rows : ClaimedKey(a) = ClaimedKey(b) => file_df[a].rank = file_df[b].rank

Voted(r) == ~IsNaN(file_df[r].score2)

TiedWith(a) ==
  {c \in Rows : file_df[c].score = file_df[a].score /\ file_df[c].support = file_df[a].support}

\* b has the next lower key after a, among the entries that received votes
NextLower(a, b) ==
  /\ Voted(a) /\ Voted(b)
  /\ ClaimedKey(b) < ClaimedKey(a)
  /\ \A c \in Rows : Voted(c) => ~(ClaimedKey(b) < ClaimedKey(c) /\ ClaimedKey(c) < ClaimedKey(a))

\* C4 as claimed (dense ranking), on the entries that received votes: when
\* k >= 2 entries tie and share rank r, the entry with the next lower key has
\* rank r + 1.
C4_DenseRank ==
  pc = "counted" =>
    \A a \in Rows, b \in Rows :
      (Cardinality(TiedWith(a)) >= 2 /\ NextLower(a, b))
        => file_df[b].rank = file_df[a].rank + 1

\* C4 as amended (competition ranking): when k >= 2 entries that received
\* votes tie and share rank r, the entry with the next lower key among the
\* entries that received votes has rank r + k.
C4_CompetitionRank ==
  pc = "counted" =>
    \A a \in Rows, b \in Rows :
      (Cardinality(TiedWith(a)) >= 2 /\ NextLower(a, b))
        => /\ \A c \in TiedWith(a) : file_df[c].rank = file_df[a].rank
           /\ file_df[b].rank = file_df[a].rank + Cardinality(TiedWith(a))

C4_Witness ==
  /\ pc = "counted"
  /\ \E a \in Rows, b \in Rows :
       /\ Cardinality(TiedWith(a)) >= 2 /\ NextLower(a, b)
       /\ file_df[a].rank = 1 /\ file_df[b].rank = 3

\* the entries that count_votes gave a key (score2): those with votes
Keyed == {r \in Rows : ~IsNaN(file_df[r].score2)}

\* C26: ordering the entries by the key score + support / (max(support) + 1)
\* is the lexicographic order on (score, support): the key of a is greater
\* than the key of b exactly when a has the greater score, or the same score
\* and the greater support, and the keys are equal exactly when score and
\* support both are.
C26_KeyIsLexicographic ==
  pc = "counted" =>
    \A a, b \in Keyed :
      /\ Num(file_df[a].score2) > Num(file_df[b].score2) <=>
           \/ file_df[a].score > file_df[b].score
           \/ file_df[a].score = file_df[b].score /\ file_df[a].support > file_df[b].support
      /\ file_df[a].score2 = file_df[b].score2 <=>
           file_df[a].score = file_df[b].score /\ file_df[a].support = file_df[b].support

C26_Witness ==
  /\ pc = "counted"
  /\ \E a, b \in Keyed :
       /\ file_df[a].score > file_df[b].score /\ file_df[a].support < file_df[b].support
       /\ Num(file_df[a].score2) > Num(file_df[b].score2)

\* C18: a vote marked MULTI_PLACEMENT (8) is scored as a Highly Commended
\* praise: it adds 0 to the score and 1 to the support of its entry.  Stated
\* for the entries all of whose votes are accepted or marked 8.
C18_MultiPlacementAsPraise ==
  pc = "counted" =>
    \A r \in Rows :
      (\A i \in Ballots :
         vote_df[i].num = file_df[r].num => vote_df[i].error \in {Val(0), Val(8)}) =>
        /\ file_df[r].score = AcceptedScore(file_df[r].num)
        /\ file_df[r].support =
             Cardinality({i \in Ballots : vote_df[i].num = file_df[r].num})

(***************************************************************************)
(* Properties of the vote validation (validate_votes), on the votes in     *)
(* document order.                                                         *)
(***************************************************************************)
Validated == pc \in {"votes", "counted"}

Rejected(i) == ~IsNaN(vote_df[i].error) /\ Num(vote_df[i].error) # 0

SamePair(i, j) == vote_df[i].num = vote_df[j].num /\ vote_df[i].voter = vote_df[j].voter

FirstOfPair(i) == \A j \in 1..(i - 1) : ~SamePair(i, j)

\* the verdict of validate_voters on the voter of vote i
Verdict(i) == VoterError(vote_df[i].voter, voter_df)

\* a signed vote of an eligible voter for somebody else's entry, not repeated
Regular(i) ==
  /\ vote_df[i].voter # ""
  /\ Verdict(i) = Val(0)
  /\ FirstOfPair(i)
  /\ vote_df[i].voter # vote_df[i].creator

\* another regular vote gives the same place on behalf of the same voter
Conflict(i) ==
  \E j \in Ballots :
    /\ j # i /\ Regular(j)
    /\ vote_df[j].award > 0
    /\ vote_df[j].award = vote_df[i].award
    /\ vote_df[j].voter = vote_df[i].voter

\* C5: a vote with award 0 never ends with a code inherited from its voter
\* (1..4) nor with MULTI_PLACEMENT (8): its error is 0, 5, 6 or 7.
C5_Amnesty ==
  Validated =>
    \A i \in Ballots :
      vote_df[i].award = 0 => vote_df[i].error \in {Val(0), Val(5), Val(6), Val(7)}

C5_Witness ==
  /\ pc = "votes"
  /\ \E i \in Ballots :
       /\ vote_df[i].award = 0 /\ vote_df[i].error = Val(0)
       /\ Positive(Verdict(i))

\* C6: of the votes of one signed voter for one entry, every vote after the
\* first is rejected; when the voter is eligible, is not the creator and the
\* first vote has no multiple-placement conflict, the first keeps error 0 and
\* each later one has DUPLICATE_VOTE (5).
C6_Duplicates ==
  Validated =>
    \A i \in Ballots, j \in Ballots :
      (i < j /\ SamePair(i, j) /\ vote_df[i].voter # "") =>
        /\ Rejected(j)
        /\ (Regular(i) /\ vote_df[j].voter # vote_df[j].creator /\ ~Conflict(i))
             => (vote_df[i].error = Val(0) /\ vote_df[j].error = Val(5))

C6_Witness ==
  /\ pc = "votes"
  /\ \E i \in Ballots, j \in Ballots :
       /\ i < j /\ SamePair(i, j) /\ Regular(i) /\ vote_df[i].award > 0
       /\ vote_df[i].error = Val(0) /\ vote_df[j].error = Val(5)

\* C7: a signed vote of the creator of the entry has SELF_VOTE (7), whatever
\* its award, the verdict on the voter, and whether it is also a duplicate or
\* one of several votes giving the same place.
C7_SelfVote ==
  Validated =>
    \A i \in Ballots :
      (vote_df[i].voter = vote_df[i].creator /\ vote_df[i].voter # "")
        => vote_df[i].error = Val(7)

C7_Witness ==
  /\ pc = "votes"
  /\ \E i \in Ballots :
       /\ vote_df[i].voter = vote_df[i].creator /\ vote_df[i].voter # ""
       /\ ~FirstOfPair(i) /\ Positive(Verdict(i)) /\ vote_df[i].award > 0
       /\ vote_df[i].error = Val(7)

\* C8: a vote has MULTI_PLACEMENT (8) exactly when it gives a place
\* (award > 0), no earlier pass rejected it, and another vote that no earlier
\* pass rejected gives the same place on behalf of the same voter; rejected
\* votes neither get code 8 nor count for a group, and all votes of a group
\* are marked.
C8_MultiPlacement ==
  Validated =>
    \A i \in Ballots :
      vote_df[i].error = Val(8) <=>
        (vote_df[i].award > 0 /\ Regular(i) /\ Conflict(i))

C8_Witness ==
  /\ pc = "votes"
  /\ \E i \in Ballots, j \in Ballots :
       /\ i < j /\ vote_df[i].voter = vote_df[j].voter
       /\ vote_df[i].error = Val(8) /\ vote_df[j].error = Val(8)

(***************************************************************************)
(* Properties of the voter validation (validate_voters).                   *)
(***************************************************************************)
Classified == pc \in {"voters", "votes", "counted"}

Voters == 1..Len(voter_df)

\* the identity service knows the voter of row k as a registered user
RegisteredVoter(k) ==
  voter_df[k].voter \in DOMAIN lookups /\ lookups[voter_df[k].voter].registered

Answer(k) == lookups[voter_df[k].voter]

VotesOfVoter(k) == {i \in Ballots : vote_df[i].voter = voter_df[k].voter}

\* C9: a registered voter who has not entered the challenge gets LOW_EDITS (4)
\* with fewer than 50 edits, NEW_ACCOUNT (3) with an account younger than 10
\* days and at least 50 edits, and no error otherwise; every placement vote
\* of such a voter with an error ends validate_votes rejected.
C9_NewVoters ==
  Classified =>
    \A k \in Voters :
      (RegisteredVoter(k) /\ ~Answer(k).entered) =>
        /\ voter_df[k].error = IF Answer(k).edits < 50 THEN 4
                               ELSE IF Answer(k).days < 10 THEN 3 ELSE 0
        /\ (Validated /\ voter_df[k].error # 0) =>
             \A i \in VotesOfVoter(k) : vote_df[i].award > 0 => Rejected(i)

C9_Witness ==
  /\ pc = "votes"
  /\ \E k \in Voters :
       /\ RegisteredVoter(k) /\ ~Answer(k).entered
       /\ Answer(k).edits < 50 /\ Answer(k).days < 10
       /\ voter_df[k].error = 4
       /\ \E i \in VotesOfVoter(k) : vote_df[i].award > 0 /\ vote_df[i].error = Val(4)

\* C10: a registered voter with an account younger than 10 days or fewer than
\* 50 edits who has entered the challenge keeps error 0 and has the code of
\* the violation (3 or 4) in note; the placement votes of this voter are not
\* rejected for eligibility: a regular one without conflict is accepted, and
\* none carries a code 1..4.
C10_ExemptContributor ==
  Classified =>
    \A k \in Voters :
      (RegisteredVoter(k) /\ Answer(k).entered
         /\ (Answer(k).days < 10 \/ Answer(k).edits < 50)) =>
        /\ voter_df[k].error = 0
        /\ voter_df[k].note = IF Answer(k).edits < 50 THEN 4 ELSE 3
        /\ Validated =>
             \A i \in VotesOfVoter(k) :
               vote_df[i].award > 0 =>
                 /\ vote_df[i].error \in {Val(0), Val(5), Val(7), Val(8)}
                 /\ (Regular(i) /\ ~Conflict(i)) => vote_df[i].error = Val(0)

C10_Witness ==
  /\ pc = "votes"
  /\ \E k \in Voters :
       /\ RegisteredVoter(k) /\ Answer(k).entered /\ Answer(k).days < 10
       /\ voter_df[k].error = 0 /\ voter_df[k].note \in {3, 4}
       /\ \E i \in VotesOfVoter(k) : vote_df[i].award > 0 /\ vote_df[i].error = Val(0)

\* C11: every registered voter the identity service reports blocked has note
\* BLOCKED (1) in the verdict, whatever the new-account, low-edits and
\* exemption rule decides, and the error is the one that rule gives alone.
C11_BlockedNote ==
  Classified =>
    \A k \in Voters :
      (RegisteredVoter(k) /\ Answer(k).blocked) =>
        /\ voter_df[k].note = 1
        /\ voter_df[k].error = IF Answer(k).entered THEN 0
                               ELSE IF Answer(k).edits < 50 THEN 4
                               ELSE IF Answer(k).days < 10 THEN 3 ELSE 0

\* C12: a voter whose name is an IP literal ends with error IP_ADDRESS (1)
\* and is never looked up; a looked-up voter who is not registered ends with
\* error NOT_REGISTERED (2); neither code is overwritten by 3 or 4, and the
\* note of both stays 0.
C12_TerminalVerdicts ==
  Classified =>
    \A k \in Voters :
      /\ IsIP(voter_df[k].voter) =>
           /\ voter_df[k].error = 1 /\ voter_df[k].note = 0
           /\ voter_df[k].voter \notin DOMAIN lookups
      /\ (voter_df[k].voter \in DOMAIN lookups /\ ~Answer(k).registered) =>
           voter_df[k].error = 2 /\ voter_df[k].note = 0

C12_Witness ==
  /\ pc = "voters"
  /\ \E k \in Voters : IsIP(voter_df[k].voter) /\ voter_df[k].error = 1
  /\ \E k \in Voters :
       /\ voter_df[k].voter \in DOMAIN lookups /\ ~Answer(k).registered
       /\ Answer(k).edits < 50 /\ voter_df[k].error = 2

\* C13: when the identity lookup of one voter fails, validate_voters still
\* completes: the failing voter is recorded as unknown (not registered,
\* edit count -1, no registration date) and every voter has a verdict.
C13_LookupFailureTolerated ==
  \A v \in DOMAIN lookups :
    lookups[v] = Failure =>
      /\ Classified
      /\ {voter_df[k].voter : k \in Voters} = Range(VoterList(votes))
      /\ \A k \in Voters :
           voter_df[k].voter = v =>
             /\ voter_df[k].error = 2
             /\ voter_df[k].edit_count = Val(-1)
             /\ IsNaN(voter_df[k].reg_date)

\* the code the passes of validate_votes leave on vote i, by precedence
LastPass(i) ==
  IF vote_df[i].voter = vote_df[i].creator THEN 7
  ELSE IF vote_df[i].voter = "" THEN 6
  ELSE IF ~FirstOfPair(i) THEN 5
  ELSE IF vote_df[i].award > 0 /\ Positive(Verdict(i)) THEN Num(Verdict(i))
  ELSE IF vote_df[i].award > 0 /\ Conflict(i) THEN 8
  ELSE 0

\* C20: the passes overwrite in a fixed order: SELF_VOTE (7) overrides
\* UNSIGNED (6), which overrides DUPLICATE (5), which overrides the code
\* inherited from the voter (1..4, cleared to 0 first for an award of 0);
\* MULTI_PLACEMENT (8) goes only to a vote that all of them left at 0.
C20_PassPrecedence ==
  Validated => \A i \in Ballots : vote_df[i].error = Val(LastPass(i))

C20_Witness ==
  /\ pc = "votes"
  /\ \E i \in Ballots :
       /\ vote_df[i].voter = "" /\ vote_df[i].creator = "" /\ ~FirstOfPair(i)
       /\ vote_df[i].error = Val(7)
  /\ \E i \in Ballots :
       /\ vote_df[i].voter = "" /\ vote_df[i].creator = "" /\ FirstOfPair(i)
       /\ vote_df[i].error = Val(7)

\* C21: after validate_votes every vote with an empty voter has error
\* UNSIGNED (6), whatever its creator is, an empty creator included.
C21_UnsignedIsSix ==
  Validated => \A i \in Ballots : vote_df[i].voter = "" => vote_df[i].error = Val(6)

\* C27: validate_votes neither deletes, adds nor reorders votes and changes
\* only the error code: its output has one row per parsed vote, in document
\* order, with number, award, voter and creator unchanged.
C27_VotesKept ==
  Validated =>
    /\ Len(vote_df) = Len(votes)
    /\ \A i \in Ballots :
         /\ vote_df[i].num = votes[i].num /\ vote_df[i].award = votes[i].award
         /\ vote_df[i].voter = votes[i].voter /\ vote_df[i].creator = votes[i].creator

C27_Witness ==
  /\ pc = "votes" /\ Len(votes) = 2 /\ Len(vote_df) = 2
  /\ vote_df[2].error = Val(5) /\ vote_df[2].award = 3 /\ votes[2].award = 3
  /\ vote_df[1].error = Val(0)

\* C28: for every month name of the challenge label validate_voters derives
\* the start date (day 30 of the month) and goes on to classify the voters:
\* no month makes the derivation raise.
C28_EveryMonthHasStartDate == pc # "ValueError"

\* C17: every classification is total.  validate_voters gives every voter a
\* record with error in 0..4, note in {0, 1, 3, 4} and an integer edit count
\* (-1 when the voter was never looked up), also when no voter was looked up;
\* validate_votes gives every vote, unsigned ones too, an integer error 0..8.
C17_TotalClassification ==
  /\ pc # "KeyError"
  /\ Classified =>
       \A k \in Voters :
         /\ voter_df[k].error \in 0..4 /\ voter_df[k].note \in {0, 1, 3, 4}
         /\ ~IsNaN(voter_df[k].edit_count)
         /\ voter_df[k].voter \notin DOMAIN lookups => voter_df[k].edit_count = Val(-1)
  /\ Validated =>
       \A i \in Ballots : ~IsNaN(vote_df[i].error) /\ Num(vote_df[i].error) \in 0..8

(***************************************************************************)
(* Properties of the parser (parse_voting_page) on pages of any shape.     *)
(***************************************************************************)
\* C14: parse_voting_page never raises, whatever the order of the lines; a
\* creator line or a vote line before the first header is skipped or gives
\* empty fields.
C14_ParserNeverRaises == pc # "NameError"

\* C15: whenever a vote has been emitted, an entry with the same number has
\* been emitted before it.
C15_VoteHasEntry ==
  \A i \in 1..Len(votes) : \E j \in 1..Len(files) : files[j].num = votes[i].num

\* C16: the empty number of a header without a number matches nothing: the
\* votes below such a header are credited to no entry, not even to one whose
\* own number is empty, and the empty number is never converted to an
\* integer.
C16_EmptyNumberMatchesNothing ==
  /\ pc = "counted" =>
       \A r \in Rows : file_df[r].num = "" => file_df[r].support = 0 /\ file_df[r].score = 0
  /\ ~(pc = "ValueError" /\ \E i \in Ballots : vote_df[i].num = "" /\ Rejected(i))

\* C22: every vote that parse_voting_page emits has an award in 0..3; a vote
\* line whose award digit is outside that range emits no vote.
C22_AwardInRange == \A i \in 1..Len(votes) : votes[i].award \in 0..3

\* C23: parse_voting_page emits at most one entry per header and the numbers
\* of the entries are pairwise distinct, also with several creator lines
\* below one header; count_votes returns one scored row per entry number.
C23_OneEntryPerNumber ==
  /\ \A i, j \in 1..Len(files) : i # j => files[i].num # files[j].num
  /\ pc = "counted" => \A q, r \in Rows : q # r => file_df[q].num # file_df[r].num

\* some header line of the page is read in this step
HeaderStep == \E l \in Redundant.lines : l.hdr /\ ReadLine(l, Redundant)

\* C24: every header line resets the context of the parser (file name, title
\* and creator empty) and emits nothing, neither an entry nor a vote.
C24_HeaderResets ==
  [][HeaderStep =>
       /\ fname' = "" /\ title' = "" /\ creator' = ""
       /\ files' = files /\ votes' = votes]_vars

\* C25: with several file lines below one header the entry takes file name
\* and title from the last one: the title of an earlier file line does not
\* survive a later file line that has no title.
C25_LastFileLineWins ==
  \A i \in 1..Len(files) :
    /\ files[i].file_name = "Other.jpg" => files[i].title = ""
    /\ files[i].file_name = "Image.jpg" => files[i].title = "Title"

(***************************************************************************)
(* Properties of the winner notices and of the voting page generator.      *)
(***************************************************************************)
\* C29: talk_to_winners posts a notice only for entries of rank 1, 2 or 3
\* (Gold, Silver, Bronze): an entry without votes is never notified.
C29_OnlyMedalsNotified ==
  \A k \in 1..Len(notices) :
    notices[k].rank \in 1..3 /\ notices[k].color \in Range(Colors)

\* C30: create_voting_page numbers the accepted files 1, 2, ..., k in the
\* order of the page: a file removed because it does not exist, was uploaded
\* outside the month or exceeds four entries of its user takes no number.
C30_ConsecutiveNumbers ==
  /\ \A i \in 1..Len(voting.anchors) : voting.anchors[i] = Digits[i]
  /\ Len(voting.anchors) + Len(voting.errors) = voting.row

C30_Witness ==
  /\ pc = "generated"
  /\ Len(voting.anchors) = 2
  /\ Range(voting.errors) = {"does not exist", "more than 4 entries"}

====
